---- MODULE Spec2Model ----
(***************************************************************************)
(* Model of scraper.py: a sequential batch job that enumerates            *)
(* (template, city) queries against a map-search page, collects the       *)
(* rendered cards (scrape_city), filters them against the in-memory       *)
(* known-set and appends the novel ones to a spreadsheet (main).          *)
(*                                                                         *)
(* Text is modelled as a sequence of one-character strings, so that       *)
(* str.strip() and str.lower() are computed and not assumed.              *)
(***************************************************************************)
EXTENDS Integers, Sequences, FiniteSets, TLC

VARIABLES
    store,              \* the worksheet: a sequence of rows, a row a sequence of cell texts
    existing_websites,  \* main's known-set
    pc,                 \* position of the single flow of control
    bq,                 \* index into BUSINESS_QUERIES of the running query
    ci,                 \* index into CITIES of the running query
    surface,            \* per query, the feed the remote page renders, if it is fixed
    feed,               \* the page as rendered for the running query
    n_scrolls,          \* scroll rounds performed by the running scrape_city
    previous_count,     \* scrape_city's previous_count
    results,            \* scrape_city's return value
    new_rows,           \* main's pending batch
    run,                \* number of the process run against this store
    \* history variables (never read by the actions' guards or effects)
    attempts,           \* queries whose try-block was entered in this run, in order
    failed,             \* queries of this run aborted by a caught exception
    observed,           \* card counts read inside the running scroll loop
    extracted,          \* whether the running scrape_city reached card extraction
    known0,             \* existing_websites when the running query started
    store0,             \* store when the running query started
    n_appends,          \* append_rows calls made in this run
    boot_store,         \* store as found when this run started
    prev_all_ok         \* whether the previous run completed with no query failing

vars == <<store, existing_websites, pc, bq, ci, surface, feed, n_scrolls,
          previous_count, results, new_rows, run, attempts, failed, observed,
          extracted, known0, store0, n_appends, boot_store, prev_all_ok>>

query_vars == <<feed, n_scrolls, previous_count, results, new_rows,
                observed, extracted>>

-----------------------------------------------------------------------------
(* Bounds of the model *)

MaxRuns == 2
MaxCards == 3
MaxFeedLen == 4

-----------------------------------------------------------------------------
(* Configuration *)

\* Two templates and two cities stand for the five templates and 54 cities.
BUSINESS_QUERIES == <<"BNG Survey in", "Ecological Survey in">>

CITIES == <<"Bath", "York">>

MAX_SCROLLS == 50

\* The header texts are single tokens: neither blank nor upper case.
Header == << <<"business_name">>, <<"website">> >>

-----------------------------------------------------------------------------
(* Text *)

IsSpace(c) == c = " "

LowerChar(c) ==
    CASE c = "A" -> "a"
      [] c = "B" -> "b"
      [] c = "N" -> "n"
      [] c = "M" -> "m"
      [] OTHER -> c

lower(s) == [i \in 1..Len(s) |-> LowerChar(s[i])]

RECURSIVE lstrip(_)
lstrip(s) == IF s # <<>> /\ IsSpace(Head(s)) THEN lstrip(Tail(s)) ELSE s

RECURSIVE rstrip(_)
rstrip(s) ==
    IF s # <<>> /\ IsSpace(s[Len(s)]) THEN rstrip(SubSeq(s, 1, Len(s) - 1)) ELSE s

strip(s) == rstrip(lstrip(s))

strip_lower(s) == lower(strip(s))

\* Python truthiness of a str-or-None value; None is modelled as the empty text.
Truthy(s) == s # <<>>

-----------------------------------------------------------------------------
(* The search surface *)

\* A rendered div[role="article"]: whether it holds an a[data-value="Website"]
\* and its href, whether it holds a div.fontHeadlineSmall and its inner text,
\* and whether reading it raises (detached element, strict-mode violation).
Card(has_link, href, has_name, inner_text, raises) ==
    [has_link |-> has_link, href |-> href, has_name |-> has_name,
     inner_text |-> inner_text, raises |-> raises]

Cards ==
    { Card(TRUE,  <<"a">>,           TRUE,  <<"N">>,      FALSE),
      Card(TRUE,  <<" ", "A", " ">>, TRUE,  <<" ", "N">>, FALSE),
      Card(TRUE,  <<"b">>,           TRUE,  <<"M">>,      FALSE),
      Card(TRUE,  <<"b">>,           FALSE, <<>>,         FALSE),
      Card(TRUE,  <<"a">>,           TRUE,  <<" ">>,      FALSE),
      Card(FALSE, <<>>,              TRUE,  <<"N">>,      FALSE),
      Card(TRUE,  <<>>,              TRUE,  <<"M">>,      FALSE),
      Card(TRUE,  <<" ">>,           TRUE,  <<"N">>,      FALSE),
      Card(TRUE,  <<"B">>,           TRUE,  <<"M">>,      TRUE) }

SeqsUpTo(S, n) == UNION { [1..k -> S] : k \in 0..n }

\* A feed: whether div[role="feed"] appears within the wait, the card count read
\* in each scroll round (the last one repeats), and the cards rendered when the
\* loop has ended.
Feed(appears, counts, cards) ==
    [appears |-> appears, counts |-> counts, cards |-> cards]

CountAt(f, k) ==
    IF f.counts = <<>> THEN 0
    ELSE IF k <= Len(f.counts) THEN f.counts[k]
    ELSE f.counts[Len(f.counts)]

\* A feed that renders all its cards in the first round.
Loaded(cards) == Feed(TRUE, <<Len(cards)>>, cards)

NoFeed == Feed(FALSE, <<>>, <<>>)

\* A page that renders a card but never the feed container.
Unfed == Feed(FALSE, <<1>>, << Card(TRUE, <<"b">>, TRUE, <<"M">>, FALSE) >>)

\* The feeds of at most n cards, and the pages without a feed container.
FeedsUpTo(n) == {NoFeed, Unfed} \cup { Loaded(cs) : cs \in SeqsUpTo(Cards, n) }

-----------------------------------------------------------------------------
(* scrape_city: extraction of one card, and of all of them *)

\* ExtractCard with "if website:" for "if name and website:".
ExtractCard_keeps_nameless(card) ==
    IF card.raises THEN <<>>
    ELSE LET website == IF card.has_link THEN card.href ELSE <<>> IN
         IF ~Truthy(website) THEN <<>>
         ELSE LET name == IF card.has_name THEN strip(card.inner_text) ELSE <<>> IN
              << [business_name |-> name, website |-> strip(website)] >>

ExtractCard(card) ==
    IF card.raises THEN <<>>
    ELSE LET website == IF card.has_link THEN card.href ELSE <<>> IN
         IF ~Truthy(website) THEN <<>>
         ELSE LET name == IF card.has_name THEN strip(card.inner_text) ELSE <<>> IN
              IF Truthy(name) /\ Truthy(website)
              THEN << [business_name |-> name, website |-> strip(website)] >>
              ELSE <<>>

RECURSIVE ExtractCards(_)
ExtractCards(cards) ==
    IF cards = <<>> THEN <<>>
    ELSE ExtractCard(Head(cards)) \o ExtractCards(Tail(cards))

-----------------------------------------------------------------------------
(* main: the persistence gate *)

\* website_key without .lower().
website_key_as_written(r) == r.website

website_key(r) == lower(r.website)

\* One iteration of "for r in results": the pending batch and the known-set.
GateAccepts(key, known) == key \notin known

RECURSIVE GateLoop(_, _, _)
GateLoop(rs, rows, known) ==
    IF rs = <<>> THEN [new_rows |-> rows, existing_websites |-> known]
    ELSE LET r == Head(rs) IN
         IF GateAccepts(website_key(r), known)
         THEN GateLoop(Tail(rs), Append(rows, <<r.business_name, r.website>>),
                       known \cup {website_key(r)})
         ELSE GateLoop(Tail(rs), rows, known)

-----------------------------------------------------------------------------
(* The store *)

row_values_1(sheet) == IF sheet = <<>> THEN <<>> ELSE sheet[1]

HeaderPresent(sheet) == row_values_1(sheet) = Header

\* rows[1:]
DataRows(sheet) == IF sheet = <<>> THEN <<>> ELSE Tail(sheet)

RowCounts(row) == Len(row) > 1 /\ Truthy(row[2])

\* get_existing_websites over rows for rows[1:].
get_existing_websites_all_rows(sheet) ==
    { strip_lower(sheet[i][2]) : i \in { j \in 1..Len(sheet) : RowCounts(sheet[j]) } }

get_existing_websites(sheet) ==
    { strip_lower(DataRows(sheet)[i][2]) :
        i \in { j \in 1..Len(DataRows(sheet)) : RowCounts(DataRows(sheet)[j]) } }

-----------------------------------------------------------------------------
(* main: the enumeration *)

Queries == (1..Len(BUSINESS_QUERIES)) \X (1..Len(CITIES))

\* The pair that follows <<b, c>> in "for business_query ...: for city ...:";
\* past the last pair the template index leaves its range.
\* NextQuery with the two loops swapped.
NextQuery_city_major(b, c) ==
    IF b < Len(BUSINESS_QUERIES) THEN <<b + 1, c>>
    ELSE IF c < Len(CITIES) THEN <<1, c + 1>>
    ELSE <<b + 1, 1>>

NextQuery(b, c) ==
    IF c < Len(CITIES) THEN <<b, c + 1>> ELSE <<b + 1, 1>>

Exhausted(b) == b > Len(BUSINESS_QUERIES)

\* Both the normal end of the loop body and "except ...: continue" lead here.
Advance ==
    LET q == NextQuery(bq, ci) IN
    /\ bq' = q[1]
    /\ ci' = q[2]
    /\ pc' = IF Exhausted(q[1]) THEN "completed" ELSE "goto"

-----------------------------------------------------------------------------
(* Startup *)

InitGoogleSheet ==
    /\ pc = "start"
    /\ store' = IF HeaderPresent(store) THEN store ELSE <<Header>>
    /\ pc' = "sheet_ready"
    /\ UNCHANGED <<existing_websites, bq, ci, surface, run, attempts, failed,
                   known0, store0, n_appends, boot_store, prev_all_ok>>
    /\ UNCHANGED query_vars

GetExistingWebsites ==
    /\ pc = "sheet_ready"
    /\ existing_websites' = get_existing_websites(store)
    /\ pc' = "goto"
    /\ UNCHANGED <<store, bq, ci, surface, run, attempts, failed,
                   known0, store0, n_appends, boot_store, prev_all_ok>>
    /\ UNCHANGED query_vars

-----------------------------------------------------------------------------
(* scrape_city *)

\* The feeds the page may render for query q: the one the surface fixes for it,
\* or any feed when the surface is left open.
Renderable(q) ==
    IF surface[q].fixed THEN {surface[q].feed} ELSE FeedsUpTo(surface[q].width)

\* Entering the try-block and page.goto succeeding.
Goto ==
    /\ pc = "goto"
    /\ \E f \in Renderable(<<bq, ci>>) : feed' = f
    /\ attempts' = Append(attempts, <<bq, ci>>)
    /\ known0' = existing_websites
    /\ store0' = store
    /\ n_scrolls' = 0
    /\ previous_count' = 0
    /\ results' = <<>>
    /\ new_rows' = <<>>
    /\ observed' = <<>>
    /\ extracted' = FALSE
    /\ pc' = "wait_feed"
    /\ UNCHANGED <<store, existing_websites, bq, ci, surface, run, failed,
                   n_appends, boot_store, prev_all_ok>>

\* Entering the try-block and page.goto raising (timeout, network).
GotoRaises ==
    /\ pc = "goto"
    /\ attempts' = Append(attempts, <<bq, ci>>)
    /\ failed' = failed \cup {<<bq, ci>>}
    /\ known0' = existing_websites
    /\ store0' = store
    /\ feed' = NoFeed
    /\ n_scrolls' = 0
    /\ previous_count' = 0
    /\ results' = <<>>
    /\ new_rows' = <<>>
    /\ observed' = <<>>
    /\ extracted' = FALSE
    /\ Advance
    /\ UNCHANGED <<store, existing_websites, surface, run, n_appends,
                   boot_store, prev_all_ok>>

\* WaitForSelector with "pass" for "return []" in the except clause.
WaitForSelector_falls_through ==
    /\ pc = "wait_feed"
    /\ pc' = IF MAX_SCROLLS > 0 THEN "scroll" ELSE "extract"
    /\ previous_count' = 0
    /\ UNCHANGED <<store, existing_websites, bq, ci, surface, feed, n_scrolls,
                   results, new_rows, run, attempts, failed, observed, extracted,
                   known0, store0, n_appends, boot_store, prev_all_ok>>

\* wait_for_selector: on any failure scrape_city returns [] and main goes on
\* with the gate; otherwise the scroll loop starts with previous_count = 0.
WaitForSelector ==
    /\ pc = "wait_feed"
    /\ IF feed.appears
       THEN /\ pc' = IF MAX_SCROLLS > 0 THEN "scroll" ELSE "extract"
            /\ previous_count' = 0
            /\ results' = results
       ELSE /\ pc' = "gate"
            /\ previous_count' = previous_count
            /\ results' = <<>>
    /\ UNCHANGED <<store, existing_websites, bq, ci, surface, feed, n_scrolls,
                   new_rows, run, attempts, failed, observed, extracted,
                   known0, store0, n_appends, boot_store, prev_all_ok>>

\* LoopContinues with range(MAX_SCROLLS + 1).
LoopContinues_one_more(n) == n <= MAX_SCROLLS

\* "for _ in range(MAX_SCROLLS)": whether another round starts after n rounds.
LoopContinues(n) == n < MAX_SCROLLS

\* Stable with "<=" for "==".
Stable_or_shrunk(current_count, prev) == current_count <= prev

\* "if current_count == previous_count: break"
Stable(current_count, prev) == current_count = prev

\* One round: scroll, wait, count, compare.
ScrollRound ==
    /\ pc = "scroll"
    /\ LoopContinues(n_scrolls)
    /\ LET current_count == CountAt(feed, n_scrolls + 1) IN
       /\ n_scrolls' = n_scrolls + 1
       /\ observed' = Append(observed, current_count)
       /\ IF Stable(current_count, previous_count)
          THEN /\ previous_count' = previous_count
               /\ pc' = "extract"
          ELSE /\ previous_count' = current_count
               /\ pc' = IF LoopContinues(n_scrolls + 1) THEN "scroll" ELSE "extract"
    /\ UNCHANGED <<store, existing_websites, bq, ci, surface, feed, results,
                   new_rows, run, attempts, failed, extracted, known0, store0,
                   n_appends, boot_store, prev_all_ok>>

\* The extraction loop over the rendered cards, and the return.
Extract ==
    /\ pc = "extract"
    /\ results' = ExtractCards(feed.cards)
    /\ extracted' = TRUE
    /\ pc' = "gate"
    /\ UNCHANGED <<store, existing_websites, bq, ci, surface, feed, n_scrolls,
                   previous_count, new_rows, run, attempts, failed, observed,
                   known0, store0, n_appends, boot_store, prev_all_ok>>

-----------------------------------------------------------------------------
(* main: gate, append, pause *)

Gate ==
    /\ pc = "gate"
    /\ LET g == GateLoop(results, <<>>, existing_websites) IN
       /\ new_rows' = g.new_rows
       /\ existing_websites' = g.existing_websites
       /\ pc' = IF g.new_rows # <<>> THEN "append" ELSE "pause"
    /\ UNCHANGED <<store, bq, ci, surface, feed, n_scrolls, previous_count,
                   results, run, attempts, failed, observed, extracted, known0,
                   store0, n_appends, boot_store, prev_all_ok>>

AppendRows ==
    /\ pc = "append"
    /\ store' = store \o new_rows
    /\ n_appends' = n_appends + 1
    /\ pc' = "pause"
    /\ UNCHANGED <<existing_websites, bq, ci, surface, run, attempts, failed,
                   known0, store0, boot_store, prev_all_ok>>
    /\ UNCHANGED query_vars

\* The inter-query wait ends and the loop moves on.
Pause ==
    /\ pc = "pause"
    /\ Advance
    /\ UNCHANGED <<store, existing_websites, surface, run, attempts, failed,
                   known0, store0, n_appends, boot_store, prev_all_ok>>
    /\ UNCHANGED query_vars

\* An awaited call inside the try-block raises: the scroll or the count of a
\* round, cards.count() before extraction, append_rows, or the pause. Nothing
\* is undone; "except Exception: continue" moves to the next city.
Raise ==
    /\ pc \in {"scroll", "extract", "append", "pause"}
    /\ failed' = failed \cup {<<bq, ci>>}
    /\ Advance
    /\ UNCHANGED <<store, existing_websites, surface, run, attempts,
                   known0, store0, n_appends, boot_store, prev_all_ok>>
    /\ UNCHANGED query_vars

\* The job is run again against the store it left.
Restart ==
    /\ pc = "completed"
    /\ run < MaxRuns
    /\ run' = run + 1
    /\ pc' = "start"
    /\ bq' = 1
    /\ ci' = 1
    /\ existing_websites' = {}
    /\ attempts' = <<>>
    /\ failed' = {}
    /\ n_appends' = 0
    /\ boot_store' = store
    /\ prev_all_ok' = (failed = {})
    /\ known0' = {}
    /\ store0' = store
    /\ feed' = NoFeed
    /\ n_scrolls' = 0
    /\ previous_count' = 0
    /\ results' = <<>>
    /\ new_rows' = <<>>
    /\ observed' = <<>>
    /\ extracted' = FALSE
    /\ UNCHANGED <<store, surface>>

-----------------------------------------------------------------------------
(* Specifications *)

InitStores ==
    { <<>>,
      <<Header>>,
      << Header, << <<"N">>, <<" ", "A">> >>, << <<"M">> >> >>,
      << Header, << <<"N">>, <<" ">> >> >>,
      << Header, << <<"M">>, <<>> >> >>,
      << << <<"name">>, <<"url">> >>, << <<"N">>, <<"a">> >> >> }

Fresh(s, sf, r) ==
    /\ store = s
    /\ surface = sf
    /\ run = r
    /\ existing_websites = {}
    /\ pc = "start"
    /\ bq = 1
    /\ ci = 1
    /\ feed = NoFeed
    /\ n_scrolls = 0
    /\ previous_count = 0
    /\ results = <<>>
    /\ new_rows = <<>>
    /\ attempts = <<>>
    /\ failed = {}
    /\ observed = <<>>
    /\ extracted = FALSE
    /\ known0 = {}
    /\ store0 = s
    /\ n_appends = 0
    /\ boot_store = s
    /\ prev_all_ok = FALSE

\* Any feed may be rendered for any query, in every run.
OpenSurface(n) ==
    [q \in Queries |-> [fixed |-> FALSE, feed |-> NoFeed, width |-> n]]

\* The surface that renders feed F(q) for query q, whenever it is asked.
FixedSurface(F) ==
    [q \in Queries |-> [fixed |-> TRUE, feed |-> F[q], width |-> 0]]

Init == \E s \in InitStores : Fresh(s, OpenSurface(1), 1)

Startup ==
    \/ InitGoogleSheet
    \/ GetExistingWebsites

QueryStep ==
    \/ Goto
    \/ GotoRaises
    \/ WaitForSelector
    \/ ScrollRound
    \/ Extract
    \/ Gate
    \/ AppendRows
    \/ Pause
    \/ Raise

Next ==
    \/ Startup
    \/ QueryStep
    \/ Restart

Spec == Init /\ [][Next]_vars

-----------------------------------------------------------------------------
(* One query with feeds of up to MaxCards cards: the state right before the  *)
(* last query of a run whose earlier queries found nothing new.              *)

LastQuery == <<Len(BUSINESS_QUERIES), Len(CITIES)>>

\* The pairs in the order of the two nested loops.
Order ==
    [k \in 1..(Len(BUSINESS_QUERIES) * Len(CITIES)) |->
        <<((k - 1) \div Len(CITIES)) + 1, ((k - 1) % Len(CITIES)) + 1>>]

QueryStores ==
    { <<Header>>,
      << Header, << <<"N">>, <<"a">> >> >>,
      << Header, << <<"M">>, <<"b">> >> >>,
      << Header, << <<"N">>, <<" ", "A">> >>, << <<"M">>, <<"B", " ">> >> >>,
      << Header, << <<"N">>, <<" ">> >>, << <<"M">> >> >> }

AtLastQuery(s, sf) ==
    /\ store = s
    /\ surface = sf
    /\ run = MaxRuns
    /\ existing_websites = get_existing_websites(s)
    /\ pc = "goto"
    /\ bq = LastQuery[1]
    /\ ci = LastQuery[2]
    /\ feed = NoFeed
    /\ n_scrolls = 0
    /\ previous_count = 0
    /\ results = <<>>
    /\ new_rows = <<>>
    /\ attempts = SubSeq(Order, 1, Len(Order) - 1)
    /\ failed = {}
    /\ observed = <<>>
    /\ extracted = FALSE
    /\ known0 = get_existing_websites(s)
    /\ store0 = s
    /\ n_appends = 0
    /\ boot_store = s
    /\ prev_all_ok = FALSE

InitQuery == \E s \in QueryStores : AtLastQuery(s, OpenSurface(MaxCards))

SpecQuery == InitQuery /\ [][QueryStep]_vars

-----------------------------------------------------------------------------
(* The scroll loop against feeds whose card count varies from round to round *)

CountValues == {0, 3, 7, 9}

Growing(from, len) == [k \in 1..len |-> from + k]

ScrollFeeds ==
    { Feed(TRUE, cs, <<>>) : cs \in SeqsUpTo(CountValues, MaxFeedLen) }
    \cup { Feed(TRUE, Growing(from, len), <<>>) :
             from \in {0, 4}, len \in (MAX_SCROLLS - 2)..(MAX_SCROLLS + 2) }

InitScroll ==
    \E f \in ScrollFeeds : AtLastQuery(<<Header>>, FixedSurface([q \in Queries |-> f]))

ScrollStep ==
    \/ Goto
    \/ WaitForSelector
    \/ ScrollRound

SpecScroll == InitScroll /\ [][ScrollStep]_vars

-----------------------------------------------------------------------------
(* Runs repeated against an unchanged surface *)

RerunFeeds ==
    { NoFeed,
      Loaded(<< Card(TRUE, <<"a">>, TRUE, <<"N">>, FALSE),
                Card(TRUE, <<" ", "A", " ">>, TRUE, <<" ", "N">>, FALSE) >>),
      Loaded(<< Card(TRUE, <<"b">>, TRUE, <<"M">>, FALSE) >>),
      Loaded(<< Card(TRUE, <<" ">>, TRUE, <<"N">>, FALSE) >>) }

InitRerun ==
    \E s \in {<<>>, <<Header>>} : \E F \in [Queries -> RerunFeeds] :
        Fresh(s, FixedSurface(F), 1)

SpecRerun == InitRerun /\ [][Next]_vars

-----------------------------------------------------------------------------
(* A single run, which the bounded waits of every step keep moving *)

InitRun == \E s \in InitStores : Fresh(s, OpenSurface(1), MaxRuns)

RunStep ==
    \/ Startup
    \/ QueryStep

SpecRun == InitRun /\ [][RunStep]_vars /\ WF_vars(RunStep)

-----------------------------------------------------------------------------
(* Properties *)

\* The identity key of a record or row: its website, trimmed and lowercased.
IdentityKey(website) == lower(strip(website))

HasKey(sheet, k) ==
    \E i \in 2..Len(sheet) : Len(sheet[i]) > 1 /\ IdentityKey(sheet[i][2]) = k

\* C1: the store never holds two data rows with the same identity key, so no
\* append_rows call adds a row whose key already has a row in the store.
C1_AtMostOneRowPerKey ==
    \A i, j \in 2..Len(store) :
        (i < j /\ Len(store[i]) > 1 /\ Len(store[j]) > 1)
            => IdentityKey(store[i][2]) # IdentityKey(store[j][2])

\* C9: at every query boundary each key of the known-set has a row in the store.
C9_KnownSetStored ==
    pc \in {"goto", "completed"} => \A k \in existing_websites : HasKey(store, k)

\* C10: after startup, a store that began with the header row is unchanged and
\* the known-set holds the trimmed, lowercased non-empty websites of its data
\* rows; any other store holds the header row alone and the known-set is empty.
C10_HeaderBootstrap ==
    (pc = "goto" /\ attempts = <<>>) =>
        IF boot_store # <<>> /\ boot_store[1] = Header
        THEN /\ store = boot_store
             /\ \A k \in existing_websites :
                    \E i \in 2..Len(boot_store) :
                        /\ Len(boot_store[i]) >= 2
                        /\ boot_store[i][2] # <<>>
                        /\ k = IdentityKey(boot_store[i][2])
             /\ \A i \in 2..Len(boot_store) :
                    (Len(boot_store[i]) >= 2 /\ boot_store[i][2] # <<>>)
                        => IdentityKey(boot_store[i][2]) \in existing_websites
        ELSE /\ store = <<Header>>
             /\ existing_websites = {}

C10_Witness ==
    /\ pc = "goto"
    /\ attempts = <<>>
    /\ Len(boot_store) = 3
    /\ boot_store[1] = Header
    /\ boot_store[2][2] = <<" ", "A">>
    /\ existing_websites = {<<"a">>}

\* C8: when the feed container does not appear, the query goes through no
\* scroll round, no extraction and no append_rows call, and store and known-set
\* are as they were when the query started, up to the move to the next query.
C8_NoFeedNoAppend ==
    (pc \in {"gate", "append", "pause"} /\ ~feed.appears) =>
        /\ pc # "append"
        /\ n_scrolls = 0
        /\ observed = <<>>
        /\ ~extracted
        /\ results = <<>>
        /\ new_rows = <<>>
        /\ store = store0
        /\ existing_websites = known0

C8_Witness ==
    /\ pc = "pause"
    /\ ~feed.appears
    /\ feed.cards # <<>>
    /\ existing_websites # {}
    /\ Len(attempts) = 2

-----------------------------------------------------------------------------
(* The persistence gate, under SpecQuery *)

GateDone == pc \in {"append", "pause"}

\* Record i of batch B is the first of B with its key, and the key is not in S.
FirstNovel(B, S, i) ==
    /\ IdentityKey(B[i].website) \notin S
    /\ \A j \in 1..(i - 1) : IdentityKey(B[j].website) # IdentityKey(B[i].website)

RECURSIVE NovelRows(_, _, _)
NovelRows(B, S, i) ==
    IF i > Len(B) THEN <<>>
    ELSE (IF FirstNovel(B, S, i) THEN << <<B[i].business_name, B[i].website>> >>
          ELSE <<>>) \o NovelRows(B, S, i + 1)

\* C2: the gate hands to append_rows exactly the records of the batch that are
\* the first of their identity key and whose key is not in the known-set, in
\* batch order; the known-set then is the old one united with the batch's keys;
\* the store grows by exactly these rows, and is not touched when there is none.
C2_GateAppendsFirstNovel ==
    GateDone =>
        /\ new_rows = NovelRows(results, known0, 1)
        /\ existing_websites =
              known0 \cup { IdentityKey(results[i].website) : i \in 1..Len(results) }
        /\ (pc = "append" => new_rows # <<>> /\ store = store0)
        /\ (pc = "pause" => store = store0 \o new_rows)

C2_Witness ==
    /\ pc = "pause"
    /\ known0 = {<<"a">>}
    /\ Len(results) = 3
    /\ feed.cards[1].href = <<"a">>
    /\ feed.cards[2].href = <<" ", "A", " ">>
    /\ results[1].website = <<"a">>
    /\ results[2].website = <<"A">>
    /\ results[3].website = <<"b">>
    /\ new_rows = << <<results[3].business_name, <<"b">>>> >>
    /\ Len(store) = Len(store0) + 1

-----------------------------------------------------------------------------
(* Extraction, under SpecQuery *)

Readable(card) == ~card.raises

HasWebsite(card) == card.has_link /\ card.href # <<>>

NameOf(card) == IF card.has_name THEN strip(card.inner_text) ELSE <<>>

RecordOf(card) == [business_name |-> NameOf(card), website |-> strip(card.href)]

WithWebsite(card) == Readable(card) /\ HasWebsite(card)

WithBoth(card) == Readable(card) /\ HasWebsite(card) /\ NameOf(card) # <<>>

\* The records of the cards of cs with a website, from the one at index i on.
RECURSIVE LinkedRecords(_, _)
LinkedRecords(cs, i) ==
    IF i > Len(cs) THEN <<>>
    ELSE (IF WithWebsite(cs[i]) THEN <<RecordOf(cs[i])>> ELSE <<>>)
         \o LinkedRecords(cs, i + 1)

\* The records of the cards of cs with a website and a name, from index i on.
RECURSIVE NamedLinkedRecords(_, _)
NamedLinkedRecords(cs, i) ==
    IF i > Len(cs) THEN <<>>
    ELSE (IF WithBoth(cs[i]) THEN <<RecordOf(cs[i])>> ELSE <<>>)
         \o NamedLinkedRecords(cs, i + 1)

\* C6 as stated: the batch holds one record for every (readable) card with a
\* website link, in rendering order, a card without a name included with an
\* empty business_name, and every record has a non-empty website.
C6_EveryLinkedCardReturned ==
    extracted =>
        /\ results = LinkedRecords(feed.cards, 1)
        /\ \A i \in 1..Len(results) : results[i].website # <<>>

\* C6 as amended: the batch holds one record for every readable card that has
\* both a non-empty href and a name that is non-empty once trimmed, in rendering
\* order, carrying the trimmed name and the trimmed href; all other cards are
\* skipped, so every record has a non-empty business_name.
C6_OnlyNamedLinkedCardsReturned ==
    extracted =>
        /\ results = NamedLinkedRecords(feed.cards, 1)
        /\ \A i \in 1..Len(results) : results[i].business_name # <<>>

C6_Witness ==
    /\ extracted
    /\ Len(feed.cards) = 3
    /\ HasWebsite(feed.cards[1]) /\ ~feed.cards[1].has_name
    /\ ~feed.cards[2].has_link
    /\ feed.cards[3].href = <<" ", "A", " ">>
    /\ results = << [business_name |-> <<"N">>, website |-> <<"A">>] >>

-----------------------------------------------------------------------------
(* Repeated runs, under SpecRerun *)

\* C3: a run that follows a run in which every query succeeded, against the
\* same surface and the store that run left, makes no append_rows call and
\* leaves the store as it found it.
C3_RerunAppendsNothing ==
    (run > 1 /\ prev_all_ok) => (n_appends = 0 /\ store = boot_store)

-----------------------------------------------------------------------------
(* The scroll loop, under SpecScroll *)

LoopOver == pc = "extract"

\* The count compared with the one of round k: that of round k - 1, or 0.
Before(k) == IF k = 1 THEN 0 ELSE observed[k - 1]

\* The feed's count grows in each of the first n rounds.
GrowsFor(f, n) ==
    \A k \in 1..n : CountAt(f, k) > (IF k = 1 THEN 0 ELSE CountAt(f, k - 1))

\* C4: the loop never performs more than MAX_SCROLLS rounds and is over once it
\* has performed that many; against a feed whose count grows in every round it
\* is over after exactly MAX_SCROLLS rounds.
C4_AtMostMaxScrolls ==
    /\ n_scrolls <= MAX_SCROLLS
    /\ Len(observed) = n_scrolls
    /\ (pc = "scroll" => n_scrolls < MAX_SCROLLS)
    /\ (LoopOver /\ GrowsFor(feed, MAX_SCROLLS) => n_scrolls = MAX_SCROLLS)
    /\ (GrowsFor(feed, MAX_SCROLLS) /\ n_scrolls < MAX_SCROLLS => ~LoopOver)

C4_Witness ==
    /\ LoopOver
    /\ GrowsFor(feed, MAX_SCROLLS + 1)
    /\ n_scrolls = MAX_SCROLLS

\* C5: no round before the last one performed read the same count as the round
\* before it, and a loop that is over before MAX_SCROLLS rounds ended on such a
\* round: for the counts 3,7,7,9 it reads 3,7,7 and stops; a first count of 0
\* stops it after one round.
C5_StopsAtFirstStableRound ==
    /\ \A k \in 1..(Len(observed) - 1) : observed[k] # Before(k)
    /\ (LoopOver /\ n_scrolls < MAX_SCROLLS =>
            /\ n_scrolls >= 1
            /\ observed[n_scrolls] = Before(n_scrolls))
    /\ (pc = "scroll" /\ n_scrolls >= 1 =>
            observed[n_scrolls] # Before(n_scrolls))
    /\ (LoopOver /\ feed.counts = <<3, 7, 7, 9>> => observed = <<3, 7, 7>>)
    /\ (LoopOver /\ CountAt(feed, 1) = 0 => n_scrolls = 1)

C5_Witness ==
    /\ LoopOver
    /\ feed.counts = <<3, 7, 7, 9>>
    /\ n_scrolls = 3

-----------------------------------------------------------------------------
(* The enumeration, under SpecRun *)

IsPrefix(s, t) == Len(s) <= Len(t) /\ s = SubSeq(t, 1, Len(s))

C7_InOrder ==
    /\ IsPrefix(attempts, Order)
    /\ failed \subseteq { attempts[k] : k \in 1..Len(attempts) }
    /\ (pc \in {"start", "sheet_ready"} => attempts = <<>>)
    /\ (pc = "goto" => <<bq, ci>> = Order[Len(attempts) + 1])
    /\ (pc \in {"wait_feed", "scroll", "extract", "gate", "append", "pause"}
            => <<bq, ci>> = attempts[Len(attempts)])
    /\ (pc = "completed" => attempts = Order)

\* C7: the pairs are attempted once each in the order of the nested loops,
\* template-major, whichever of them fail, and the run reaches completion.
C7_EveryPairOnceInOrder == []C7_InOrder /\ <>(pc = "completed")

C7_Witness ==
    /\ pc = "completed"
    /\ attempts = << <<1, 1>>, <<1, 2>>, <<2, 1>>, <<2, 2>> >>
    /\ failed = { <<1, 1>>, <<2, 1>>, <<2, 2>> }
    /\ Len(store) > 1

====
